---- MODULE Spec2Model ----
(***************************************************************************)
(* Model of submit_sitemap.py: a straight-line script that loads service-  *)
(* account credentials, builds a Search Console client, derives the        *)
(* sitemap URL from the site URL, submits it and prints a confirmation.    *)
(*                                                                         *)
(* The site URL and the sitemap URL are modelled as sequences of one-      *)
(* character strings so that the f-string at line 13 is a real             *)
(* concatenation.  Other literals (scope, key-file path, API name) are     *)
(* never taken apart by the script and stay opaque strings.                *)
(*                                                                         *)
(* The calls into google-auth / google-api-python-client are the script's  *)
(* environment: each of them either returns or raises, and the number of   *)
(* HTTP requests it sends is chosen by the library, not by the script.     *)
(***************************************************************************)
EXTENDS Integers, Sequences, FiniteSets, TLC

VARIABLES
    pc,        \* line of the script about to run, or "exited" / "faulted"
    ns,        \* the module's global namespace: name |-> value
    stdout,    \* lines written to standard output by this process
    stderr,    \* diagnostics written by the interpreter for an unhandled fault
    fault,     \* the statement whose fault ended the process, or "none"
    invoked,   \* statement |-> number of times it was entered in this process
    returned,  \* statement |-> number of times it returned normally
    httpCalls, \* HTTP requests sent by library calls of this process
    apiCalls,  \* of these, sitemap submissions sent to the Search Console API
    environ,   \* environment variables of the process
    argv,      \* command-line flags of the process
    run,       \* ordinal of this invocation of the script
    apiLog,    \* every submission sent to the API, over all invocations,
               \* with the invocation and its environment
    credLog    \* every credential load (key file, scopes), over all invocations

vars == <<pc, ns, stdout, stderr, fault, invoked, returned, httpCalls,
          apiCalls, environ, argv, run, apiLog, credLog>>

\* ------------------------------------------------------------------ bounds
MaxRuns == 2
MaxUrlLen == 3
MaxInvocations == 2

\* --------------------------------------------------------------- literals
SCOPES == <<"https://www.googleapis.com/auth/webmasters">>

SERVICE_ACCOUNT_FILE == "credentials.json"

SITE_URL ==
    <<"h", "t", "t", "p", "s", ":", "/", "/", "t", "g", "s", "t", "-", "j",
      "c", "v", "e", "h", "d", "g", "l", "3", "-", "h", "u", "m", "a", "n",
      "g", "o", "s", "-", "p", "r", "o", "j", "e", "c", "t", "s", ".", "v",
      "e", "r", "c", "e", "l", ".", "a", "p", "p">>

SITEMAP_SUFFIX ==
    <<"/", "s", "i", "t", "e", "m", "a", "p", ".", "x", "m", "l">>

\* The literal printed at line 17 (check mark, "Sitemap soumis a Google
\* Search Console" with a grave accent on the "a"); it is one opaque line.
CONFIRMATION == "[OK] Sitemap soumis a Google Search Console"

\* The statements that call out of the script, in program order.
Steps == {"load", "build", "construct", "execute", "print"}

LineOf ==
    [load |-> "l7", build |-> "l10", construct |-> "l15",
     execute |-> "l16", print |-> "l17"]

\* The statement that follows each line when it completes.
NextLine ==
    [l7 |-> "l10", l10 |-> "l12", l12 |-> "l13", l13 |-> "l15",
     l15 |-> "l16", l16 |-> "l17", l17 |-> "exited"]

\* ------------------------------------------------------------ environment
Chars == {"a", "/", "."}

RECURSIVE SeqsUpTo(_)
SeqsUpTo(n) ==
    IF n = 0 THEN {<< >>}
    ELSE LET shorter == SeqsUpTo(n - 1)
         IN  shorter \cup {Append(s, c) : s \in shorter, c \in Chars}

Urls == SeqsUpTo(MaxUrlLen)

OTHER_URL == <<"h", "t", "t", "p", ":", "/", "/", "x">>

Environs == {[SITE_URL |-> "unset"], [SITE_URL |-> "set"]}

Argvs == {<< >>, <<"--site">>}

\* ---------------------------------------------------------------- helpers
Bind(names, name, value) == (name :> value) @@ names

FormatSitemapUrlStripped(S) ==
    IF Len(S) > 0 /\ S[Len(S)] = "/"
    THEN S \o SubSeq(SITEMAP_SUFFIX, 2, Len(SITEMAP_SUFFIX))
    ELSE S \o SITEMAP_SUFFIX

\* f'{site_url}/sitemap.xml'
FormatSitemapUrl(S) == S \o SITEMAP_SUFFIX

SubmitArgsRelative(site, sitemap) ==
    [siteUrl |-> site, feedpath |-> SITEMAP_SUFFIX]

\* keyword arguments of sitemaps().submit(...)
SubmitArgs(site, sitemap) == [siteUrl |-> site, feedpath |-> sitemap]

Count(s) == [invoked EXCEPT ![s] = @ + 1]

\* Control is at the statement and enters it.  The script itself never
\* enters a statement twice; the cap only keeps the counters finite.
Enter(s) ==
    /\ pc = LineOf[s]
    /\ invoked[s] < MaxInvocations
    /\ invoked' = Count(s)

\* The statement completed: control moves to the next line.
Return(s) ==
    /\ pc' = NextLine[pc]
    /\ returned' = [returned EXCEPT ![s] = @ + 1]
    /\ UNCHANGED <<fault, stderr>>

RaiseSwallowed(s) ==
    /\ pc' = NextLine[pc]
    /\ UNCHANGED <<fault, stderr, ns, stdout, returned>>

RaiseCaught(s) ==
    /\ pc' = "faulted"
    /\ fault' = s
    /\ stdout' = Append(stdout, "Erreur")
    /\ UNCHANGED <<stderr, ns, returned>>

RaiseRetried(s) ==
    /\ UNCHANGED <<pc, fault, stderr, ns, stdout, returned>>

\* An exception leaves the statement; nothing in the script catches it, so
\* the interpreter writes the traceback and the process ends.
Raise(s) ==
    /\ pc' = "faulted"
    /\ fault' = s
    /\ stderr' = Append(stderr, <<"Traceback", s>>)
    /\ UNCHANGED <<ns, stdout, returned>>

\* ------------------------------------------------------------------- init
FreshNamespace ==
    [SCOPES |-> SCOPES, SERVICE_ACCOUNT_FILE |-> SERVICE_ACCOUNT_FILE]

NoCounts == [s \in Steps |-> 0]

Init ==
    /\ pc = "l7"
    /\ ns = FreshNamespace
    /\ stdout = << >>
    /\ stderr = << >>
    /\ fault = "none"
    /\ invoked = NoCounts
    /\ returned = NoCounts
    /\ httpCalls = 0
    /\ apiCalls = 0
    /\ environ \in Environs
    /\ argv \in Argvs
    /\ run = 1
    /\ apiLog = {}
    /\ credLog = {}

\* ---------------------------------------------------------------- actions
\* line 7-8: credentials = Credentials.from_service_account_file(FILE, scopes=SCOPES)
LoadCredentials ==
    /\ Enter("load")
    /\ credLog' = credLog \cup
           {[run |-> run, file |-> ns.SERVICE_ACCOUNT_FILE,
             scopes |-> ns.SCOPES]}
    /\ \/ /\ ns' = Bind(ns, "credentials",
                        [file |-> ns.SERVICE_ACCOUNT_FILE,
                         scopes |-> ns.SCOPES])
          /\ Return("load")
          /\ UNCHANGED stdout
       \/ Raise("load")
    /\ UNCHANGED <<httpCalls, apiCalls, environ, argv, run, apiLog>>

\* line 10: webmasters_service = build('searchconsole', 'v1', credentials=credentials)
\* The client library describes the API by a discovery document, which it
\* either ships with or downloads.
BuildService ==
    /\ Enter("build")
    /\ \E fetched \in BOOLEAN :
           httpCalls' = httpCalls + (IF fetched THEN 1 ELSE 0)
    /\ \/ /\ ns' = Bind(ns, "webmasters_service",
                        [serviceName |-> "searchconsole", version |-> "v1",
                         credentials |-> ns.credentials])
          /\ Return("build")
          /\ UNCHANGED stdout
       \/ Raise("build")
    /\ UNCHANGED <<apiCalls, environ, argv, run, apiLog, credLog>>

AssignSiteUrlFromEnviron ==
    /\ pc = "l12"
    /\ ns' = Bind(ns, "site_url",
                  IF environ.SITE_URL = "set" THEN OTHER_URL ELSE SITE_URL)
    /\ pc' = NextLine[pc]
    /\ UNCHANGED <<stdout, stderr, fault, invoked, returned, httpCalls,
                   apiCalls, environ, argv, run, apiLog, credLog>>

\* line 12: site_url = '...'
AssignSiteUrl ==
    /\ pc = "l12"
    /\ ns' = Bind(ns, "site_url", SITE_URL)
    /\ pc' = NextLine[pc]
    /\ UNCHANGED <<stdout, stderr, fault, invoked, returned, httpCalls,
                   apiCalls, environ, argv, run, apiLog, credLog>>

\* line 13: sitemap_url = f'{site_url}/sitemap.xml'
DeriveSitemapUrl ==
    /\ pc = "l13"
    /\ ns' = Bind(ns, "sitemap_url", FormatSitemapUrl(ns.site_url))
    /\ pc' = NextLine[pc]
    /\ UNCHANGED <<stdout, stderr, fault, invoked, returned, httpCalls,
                   apiCalls, environ, argv, run, apiLog, credLog>>

\* line 15: request = webmasters_service.sitemaps().submit(siteUrl=..., feedpath=...)
ConstructRequest ==
    /\ Enter("construct")
    /\ \/ /\ ns' = Bind(ns, "request",
                        [methodId |-> "webmasters.sitemaps.submit",
                         service |-> ns.webmasters_service,
                         params |-> SubmitArgs(ns.site_url, ns.sitemap_url)])
          /\ Return("construct")
          /\ UNCHANGED stdout
       \/ Raise("construct")
    /\ UNCHANGED <<httpCalls, apiCalls, environ, argv, run, apiLog, credLog>>

Sent(token, sent) ==
    /\ httpCalls' = httpCalls + (IF token THEN 1 ELSE 0)
                              + (IF sent THEN 1 ELSE 0)
    /\ apiCalls' = apiCalls + (IF sent THEN 1 ELSE 0)
    /\ apiLog' = IF sent
                 THEN apiLog \cup
                          {[run |-> run, environ |-> environ, argv |-> argv,
                            params |-> ns.request.params,
                            credentials |-> ns.request.service.credentials]}
                 ELSE apiLog

ExecuteSwallowed ==
    /\ Enter("execute")
    /\ \E token \in BOOLEAN, sent \in BOOLEAN :
           /\ Sent(token, sent)
           /\ \/ /\ sent
                 /\ Return("execute")
                 /\ UNCHANGED <<ns, stdout>>
              \/ RaiseSwallowed("execute")
    /\ UNCHANGED <<environ, argv, run, credLog>>

ExecuteRetried ==
    /\ Enter("execute")
    /\ \E token \in BOOLEAN, sent \in BOOLEAN :
           /\ Sent(token, sent)
           /\ \/ /\ sent
                 /\ Return("execute")
                 /\ UNCHANGED <<ns, stdout>>
              \/ /\ UNCHANGED <<pc, ns, stdout, stderr, fault, returned>>
    /\ UNCHANGED <<environ, argv, run, credLog>>

ExecuteOmitted ==
    /\ pc = "l16"
    /\ pc' = NextLine[pc]
    /\ UNCHANGED <<ns, stdout, stderr, fault, invoked, returned, httpCalls,
                   apiCalls, environ, argv, run, apiLog, credLog>>

\* line 16: request.execute()
\* The authorised transport may first obtain an access token for the
\* service account; the submission itself is one request, and execute()
\* returns only when the API answered it.  The response is discarded.
Execute ==
    /\ Enter("execute")
    /\ \E token \in BOOLEAN, sent \in BOOLEAN :
           /\ Sent(token, sent)
           /\ \/ /\ sent
                 /\ Return("execute")
                 /\ UNCHANGED <<ns, stdout>>
              \/ Raise("execute")
    /\ UNCHANGED <<environ, argv, run, credLog>>

PrintConfirmationTwice ==
    /\ Enter("print")
    /\ stdout' = stdout \o <<CONFIRMATION, CONFIRMATION>>
    /\ Return("print")
    /\ UNCHANGED <<ns, httpCalls, apiCalls, environ, argv, run, apiLog,
                   credLog>>

\* line 17: print("... Sitemap soumis a Google Search Console"), then the
\* script ends and the process exits.
PrintConfirmation ==
    /\ Enter("print")
    /\ \/ /\ stdout' = Append(stdout, CONFIRMATION)
          /\ Return("print")
          /\ UNCHANGED ns
       \/ Raise("print")
    /\ UNCHANGED <<httpCalls, apiCalls, environ, argv, run, apiLog, credLog>>

\* The script is invoked again: a new process, with nothing kept from the
\* previous one.
Invoke ==
    /\ pc \in {"exited", "faulted"}
    /\ run < MaxRuns
    /\ run' = run + 1
    /\ pc' = "l7"
    /\ ns' = FreshNamespace
    /\ stdout' = << >>
    /\ stderr' = << >>
    /\ fault' = "none"
    /\ invoked' = NoCounts
    /\ returned' = NoCounts
    /\ httpCalls' = 0
    /\ apiCalls' = 0
    /\ environ' \in Environs
    /\ argv' \in Argvs
    /\ UNCHANGED <<apiLog, credLog>>

Step ==
    \/ LoadCredentials
    \/ BuildService
    \/ AssignSiteUrl
    \/ DeriveSitemapUrl
    \/ ConstructRequest
    \/ Execute
    \/ PrintConfirmation

Next ==
    \/ LoadCredentials
    \/ BuildService
    \/ AssignSiteUrl
    \/ DeriveSitemapUrl
    \/ ConstructRequest
    \/ Execute
    \/ PrintConfirmation
    \/ Invoke

Spec == Init /\ [][Next]_vars

\* The interpreter runs the next statement whenever there is one, and every
\* library call returns or raises.
LiveSpec == Init /\ [][Next]_vars /\ WF_vars(Step)

\* ------------------------------------------------ the formatting, any S
\* The state after lines 7-12 completed, with an arbitrary site URL S in
\* place of the literal of line 12.
InitFmt ==
    /\ pc = "l13"
    /\ \E S \in Urls :
           ns = Bind(Bind(Bind(FreshNamespace, "credentials",
                               [file |-> SERVICE_ACCOUNT_FILE,
                                scopes |-> SCOPES]),
                          "webmasters_service",
                          [serviceName |-> "searchconsole", version |-> "v1",
                           credentials |-> [file |-> SERVICE_ACCOUNT_FILE,
                                            scopes |-> SCOPES]]),
                     "site_url", S)
    /\ stdout = << >>
    /\ stderr = << >>
    /\ fault = "none"
    /\ invoked = [NoCounts EXCEPT !["load"] = 1, !["build"] = 1]
    /\ returned = [NoCounts EXCEPT !["load"] = 1, !["build"] = 1]
    /\ httpCalls \in {0, 1}
    /\ apiCalls = 0
    /\ environ \in Environs
    /\ argv \in Argvs
    /\ run = 1
    /\ apiLog = {}
    /\ credLog = {[run |-> 1, file |-> SERVICE_ACCOUNT_FILE, scopes |-> SCOPES]}

NextFmt ==
    \/ DeriveSitemapUrl
    \/ ConstructRequest

SpecFmt == InitFmt /\ [][NextFmt]_vars

\* ----------------------------------------------------------- vocabulary
Bound(name) == name \in DOMAIN ns

Terminated == pc \in {"exited", "faulted"}

Printed == \E i \in 1..Len(stdout) : stdout[i] = CONFIRMATION

LibrarySteps == {"load", "build", "construct", "execute"}

StepIndex ==
    [load |-> 1, build |-> 2, construct |-> 3, execute |-> 4, print |-> 5]

ExpectedSuffix ==
    <<"/", "s", "i", "t", "e", "m", "a", "p", ".", "x", "m", "l">>

\* U is S followed by "/sitemap.xml", character by character.
IsSitePlusSuffix(U, S) ==
    /\ Len(U) = Len(S) + Len(ExpectedSuffix)
    /\ \A i \in 1..Len(S) : U[i] = S[i]
    /\ \A j \in 1..Len(ExpectedSuffix) : U[Len(S) + j] = ExpectedSuffix[j]

\* ------------------------------------------------------------------ C1
\* C1: for every site URL S, once line 13 has run, sitemap_url is exactly S
\* followed by "/sitemap.xml": S is kept unchanged as a prefix, the suffix
\* follows with its single slash, and nothing else is added or removed.
C1_SitemapUrlIsSitePlusSuffix ==
    Bound("sitemap_url") => IsSitePlusSuffix(ns.sitemap_url, ns.site_url)

C1_Witness ==
    /\ Bound("sitemap_url")
    /\ Len(ns.site_url) > 0
    /\ ns.site_url[Len(ns.site_url)] = "/"
    /\ pc = "l15"

\* ------------------------------------------------------------------ C2
\* C2: whenever the submission call has been made, its keyword arguments
\* are exactly siteUrl and feedpath, siteUrl is the script's site URL S and
\* feedpath is S followed by "/sitemap.xml"; the same holds of every
\* submission that reached the API.
C2_SubmitArguments ==
    /\ Bound("request") =>
           /\ DOMAIN ns.request.params = {"siteUrl", "feedpath"}
           /\ ns.request.params.siteUrl = SITE_URL
           /\ ns.request.params.siteUrl = ns.site_url
           /\ IsSitePlusSuffix(ns.request.params.feedpath, SITE_URL)
    /\ \A e \in apiLog :
           /\ DOMAIN e.params = {"siteUrl", "feedpath"}
           /\ e.params.siteUrl = SITE_URL
           /\ IsSitePlusSuffix(e.params.feedpath, SITE_URL)

C2_Witness ==
    /\ Bound("request")
    /\ returned["construct"] = 1
    /\ apiCalls = 1
    /\ apiLog # {}

\* ------------------------------------------------------------------ C3
\* C3: the confirmation line is on standard output only if credential
\* loading, client construction, request construction and request
\* execution were each entered and returned normally; a process ended by a
\* fault in one of them has not printed it.
C3_ConfirmationOnlyAfterSuccess ==
    /\ Printed =>
           /\ fault = "none"
           /\ \A s \in LibrarySteps : invoked[s] = 1 /\ returned[s] = 1
    /\ (fault \in LibrarySteps) => (pc = "faulted" /\ ~Printed)

C3_Witness ==
    /\ pc = "faulted"
    /\ fault = "execute"
    /\ apiCalls = 1
    /\ ~Printed

\* ------------------------------------------------------------------ C4
\* C4: a process that ran to its end without a fault has written exactly
\* one line, the confirmation string; the script never writes more than one
\* line or any other line, and writes it only after execute() returned.
C4_ExactlyOneConfirmationLine ==
    /\ pc = "exited" => stdout = <<CONFIRMATION>>
    /\ Len(stdout) <= 1
    /\ \A i \in 1..Len(stdout) : stdout[i] = CONFIRMATION
    /\ stdout # << >> => returned["execute"] = 1

C4_Witness ==
    /\ pc = "exited"
    /\ fault = "none"
    /\ stdout = <<CONFIRMATION>>

C7_Linear ==
    /\ [][run' = run =>
            /\ pc' # pc
            /\ pc' = "faulted" \/ pc' = NextLine[pc]
            /\ \A s \in Steps :
                   (pc = LineOf[s] /\ pc' # "faulted") =>
                       /\ invoked'[s] = invoked[s] + 1
                       /\ returned'[s] = returned[s] + 1
            /\ \A s \in Steps :
                   pc # LineOf[s] =>
                       /\ invoked'[s] = invoked[s]
                       /\ returned'[s] = returned[s]]_vars
    /\ [](\A s \in Steps : invoked[s] <= 1 /\ returned[s] <= invoked[s])

C7_Witness ==
    /\ pc = "exited"
    /\ \A s \in Steps : invoked[s] = 1 /\ returned[s] = 1

\* ------------------------------------------------------------------ C8
\* C8: once a step has faulted the process is over: no step is re-entered,
\* no later step has been or will be entered, standard output carries no
\* message of the script, the only diagnostic is the interpreter's
\* traceback, and the only thing that can follow is a new invocation.
C8_NoRecovery ==
    /\ [](fault # "none" =>
            /\ pc = "faulted"
            /\ stdout = << >>
            /\ stderr = << <<"Traceback", fault>> >>
            /\ invoked[fault] = 1
            /\ returned[fault] = 0
            /\ \A s \in Steps :
                   StepIndex[s] > StepIndex[fault] => invoked[s] = 0)
    /\ [][pc = "faulted" => (run' = run + 1 /\ pc' = "l7")]_vars

C8_Witness ==
    /\ pc = "faulted"
    /\ fault = "build"
    /\ invoked["construct"] = 0

\* ------------------------------------------------------------------ C9
\* C9: every invocation of the script eventually terminates, either printed
\* and exited or ended by an unhandled fault, and never both.
C9_Terminates ==
    /\ (pc = "l7") ~> Terminated
    /\ [](pc = "exited" => (Printed /\ fault = "none"))
    /\ [](pc = "faulted" => (~Printed /\ fault # "none"))

C9_Witness ==
    /\ Terminated
    /\ run = 2

\* ----------------------------------------------------------------- C10
\* C10: any two submissions, of the same or of different invocations and
\* whatever their environment variables and flags, carry identical siteUrl
\* and feedpath, the literals of the script; any two credential loads use
\* the same key file and the same scope list, which has one element.
C10_SameRequestEveryRun ==
    /\ \A e1 \in apiLog, e2 \in apiLog :
           /\ e1.params = e2.params
           /\ e1.credentials = e2.credentials
    /\ \A e \in apiLog :
           /\ e.params.siteUrl = SITE_URL
           /\ e.params.feedpath = SITE_URL \o ExpectedSuffix
           /\ e.credentials.file = "credentials.json"
    /\ \A c1 \in credLog, c2 \in credLog :
           c1.file = c2.file /\ c1.scopes = c2.scopes
    /\ \A c \in credLog :
           c.file = "credentials.json" /\ Len(c.scopes) = 1

C10_Witness ==
    \E e1 \in apiLog, e2 \in apiLog :
        /\ e1.run # e2.run
        /\ e1.environ # e2.environ
        /\ e1.argv # e2.argv

====
